---- MODULE Spec2Model ----
(***************************************************************************)
(* Quote aggregator with Jupiter priority (retail-sol-bot, question 1).    *)
(*                                                                         *)
(*   q1/commons.ts        (src/unnamed/part_001)  CircuitBreaker,          *)
(*                                                RetryManager             *)
(*   q1/quote-fallback.ts (src/unnamed/part_002)  DFlow, Hashflow, Pyth    *)
(*   q1/quote-jup.ts      (src/q1/quote-jup.ts)   Jupiter, aggregator      *)
(*                                                                         *)
(* Time is Date.now() in milliseconds.  JavaScript runs every handler to   *)
(* its next await on a network call or a timer without interruption, so    *)
(* one action is one such run: the synchronous code plus the promise       *)
(* continuations that follow it at the same instant.                       *)
(***************************************************************************)
EXTENDS Integers, Sequences, FiniteSets, TLC

VARIABLES
    now,        \* Date.now()
    breaker,    \* CircuitBreaker.state of every breaker instance, by source
    calls,      \* one record per caller of getOptimalQuote
    started,    \* number of getOptimalQuote calls begun so far
    clients,    \* one record per direct caller of CircuitBreaker.execute
    ops,        \* number of CircuitBreaker.execute calls begun so far
    hist,       \* what an outside observer of one breaker has seen
    retry,      \* one run of RetryManager.executeWithRetry
    score,      \* one call of selectBestQuote
    parsed      \* one Jupiter response turned into a quote

vars == <<now, breaker, calls, started, clients, ops, hist, retry, score, parsed>>

----------------------------------------------------------------------------
(* Bounds of the model *)

MaxCalls == 4
MaxTime == 5000
TimeStep == 500
ArrivalStep == 5000
Callers == {"a"}

\* direct use of one breaker by concurrent callers
MaxOps == 6
MaxBreakerTime == 6000
BreakerStep == 1000
Clients == {"x", "y"}

\* direct use of RetryManager.executeWithRetry
MaxRuns == 2
MaxFails == 4
MaxRetryTime == 1500
OperationLatencyMs == 300

\* direct use of selectBestQuote: length of the list of quotes
MaxQuotes == 2
----------------------------------------------------------------------------
(* Sources and their breakers *)

Sources == {"jupiter", "dflow", "hashflow", "pyth-oracle"}

\* new CircuitBreaker(3, 2000, 5000) / new CircuitBreaker(2, 1000, 3000)
failureThreshold(s) == IF s = "pyth-oracle" THEN 2 ELSE 3
halfOpenRetryDelayMs(s) == IF s = "pyth-oracle" THEN 3000 ELSE 5000

\* mutant of BreakerOf: one breaker instance shared by all the services
SharedBreaker(s) == "jupiter"

\* the breaker a service goes through: its own private circuitBreaker field
BreakerOf(s) == s

InitialBreakerState ==
    [isOpen |-> FALSE, failureCount |-> 0, lastFailureTime |-> 0, nextAttemptTime |-> 0]

\* mutant of FailsFast: the time is compared with the wrong field
FailsFastUntilLastFailure(b, t) == b.isOpen /\ t < b.lastFailureTime

\* execute: the circuit is open and it is too early to try again
FailsFast(b, t) == b.isOpen /\ t < b.nextAttemptTime

\* mutant of MoveToHalfOpen: the failure count is reset on the way
MoveToHalfOpenResets(b) == [b EXCEPT !.isOpen = FALSE, !.failureCount = 0]

\* execute: "Try to move to half-open state" (a no-op on a closed breaker)
MoveToHalfOpen(b) == [b EXCEPT !.isOpen = FALSE]

\* mutant of onSuccess: the failure count is not reset
onSuccessKeepsCount(b) == [b EXCEPT !.isOpen = FALSE]

onSuccess(b) == [b EXCEPT !.failureCount = 0, !.isOpen = FALSE]

\* mutant of onFailure: > for >= in the threshold test
onFailureOffByOne(b, t, s) ==
    LET n == b.failureCount + 1 IN
    IF n > failureThreshold(s)
    THEN [isOpen |-> TRUE, failureCount |-> n, lastFailureTime |-> t,
          nextAttemptTime |-> t + halfOpenRetryDelayMs(s)]
    ELSE [b EXCEPT !.failureCount = n, !.lastFailureTime = t]

onFailure(b, t, s) ==
    LET n == b.failureCount + 1 IN
    IF n >= failureThreshold(s)
    THEN [isOpen |-> TRUE, failureCount |-> n, lastFailureTime |-> t,
          nextAttemptTime |-> t + halfOpenRetryDelayMs(s)]
    ELSE [b EXCEPT !.failureCount = n, !.lastFailureTime = t]

----------------------------------------------------------------------------
(* Thrown values.  obj tells an Error object from a thrown string: only a  *)
(* string has an includes method.                                          *)

Err(m) == [obj |-> TRUE, msg |-> m]
Str(m) == [obj |-> FALSE, msg |-> m]

CircuitOpenError == Err("Circuit breaker is OPEN")
AbortError == Err("This operation was aborted")
IncludesTypeError == Err("error.includes is not a function")

\* what the wrapped operation of a source can reject with before its timer fires
FetchErrors(s) ==
    IF s = "jupiter" THEN {Err("Jupiter API error: 500")} ELSE {Err("fetch failed")}

----------------------------------------------------------------------------
(* RetryManager *)

\* strings on which one of the four includes() tests of isNonRetryableError holds
NonRetryableText == {"invalid token", "token not found", "invalid amount", "unauthorized"}

\* isNonRetryableError(error) calls error.includes(...): a string answers,
\* an Error object has no includes method and the call throws a TypeError
isNonRetryableError(error) ==
    IF error.obj THEN "TypeError"
    ELSE IF error.msg \in NonRetryableText THEN "true" ELSE "false"

Min(a, b) == IF a < b THEN a ELSE b

Pow2(n) == IF n = 0 THEN 1 ELSE IF n = 1 THEN 2 ELSE IF n = 2 THEN 4 ELSE 8

\* Math.min(baseDelayMs * Math.pow(2, attempt) + Math.random() * 100, maxDelayMs)
BackoffDelay(attempt, baseDelayMs, maxDelayMs, jitter) ==
    Min(baseDelayMs * Pow2(attempt) + jitter, maxDelayMs)

\* the catch block of executeWithRetry: what the wrapper does after attempt
\* number `attempt` threw `error`
RetryCatch(error, attempt, maxRetries) ==
    IF attempt = maxRetries THEN [kind |-> "throw", error |-> error]
    ELSE LET n == isNonRetryableError(error) IN
         IF n = "TypeError" THEN [kind |-> "throw", error |-> IncludesTypeError]
         ELSE IF n = "true" THEN [kind |-> "throw", error |-> error]
         ELSE [kind |-> "sleep", error |-> error]

\* values of Math.random() * 100, rounded down
Jitters == {0, 99}

----------------------------------------------------------------------------
(* Quotes and the scorer *)

\* outputAmount is a decimal string, a token amount in base units
Amounts == {"1000000"}

NoQuote == [source |-> "none", confidence |-> "none", outputAmount |-> "", warnings |-> 0]

\* the Jupiter response: the fields that getQuote reads (priceImpactPact if
\* the response has one, routePlan.length, outAmount) and priceImpactPct, the
\* price impact of the route
JupiterData ==
    [hasPact : BOOLEAN, pact : {0, 1, 3, 5, 7}, pct : {0, 1, 3, 5, 7}, hops : {1, 4, 5},
     outAmount : Amounts]

\* parseFloat(data.priceImpactPact || '0')
PriceImpact(data) == IF data.hasPact THEN data.pact ELSE 0

JupiterQuote(data) ==
    LET impact == PriceImpact(data)
        c1 == IF impact > 5 THEN "low" ELSE IF impact > 1 THEN "medium" ELSE "high"
        w1 == IF impact > 5 THEN 1 ELSE 0
        c2 == IF data.hops > 4 THEN (IF c1 = "high" THEN "medium" ELSE "low") ELSE c1
        w2 == IF data.hops > 4 THEN w1 + 1 ELSE w1
    IN [source |-> "jupiter", confidence |-> c2, outputAmount |-> data.outAmount,
        warnings |-> w2]

DFlowQuote(amount) ==
    [source |-> "dflow", confidence |-> "medium", outputAmount |-> amount, warnings |-> 0]

HashflowQuote(amount) ==
    [source |-> "hashflow", confidence |-> "high", outputAmount |-> amount, warnings |-> 0]

PythQuote(amount) ==
    [source |-> "pyth-oracle", confidence |-> "low", outputAmount |-> amount, warnings |-> 3]

\* the quotes a source's operation can resolve with
QuotesOf(s) ==
    IF s = "jupiter" THEN {JupiterQuote(d) : d \in JupiterData}
    ELSE IF s = "dflow" THEN {DFlowQuote(a) : a \in Amounts}
    ELSE IF s = "hashflow" THEN {HashflowQuote(a) : a \in Amounts}
    ELSE {PythQuote(a) : a \in Amounts}

\* parseFloat(quote.outputAmount): the double nearest to the decimal string,
\* written by its digits.  2^53 + 1 = 9007199254740993 is not a double and
\* rounds to 2^53 (ties to even); the other amounts of the model are exact.
parseFloat(text) == IF text = "9007199254740993" THEN "9007199254740992" ELSE text

\* Math.log(outputAmount + 1) * 10, in thousandths: 10 ln 101, 10 ln 1000001
\* and 10 ln 2^53 (in doubles 2^53 + 1 is 2^53)
LogTerm(outputAmount) ==
    IF outputAmount = "100" THEN 46151
    ELSE IF outputAmount = "1000000" THEN 138155
    ELSE IF outputAmount = "9007199254740992" THEN 367368
    ELSE 0

\* the "Source reliability scoring" switch
SourceBonus(source) ==
    IF source = "jupiter" THEN 100
    ELSE IF source = "hashflow" THEN 80
    ELSE IF source = "dflow" THEN 60
    ELSE IF source = "pyth-oracle" THEN 20 ELSE 0

\* calculateQuoteScore, in thousandths
calculateQuoteScore(quote) ==
    LET conf == IF quote.confidence = "high" THEN 1000
                ELSE IF quote.confidence = "medium" THEN 500
                ELSE IF quote.confidence = "low" THEN 100 ELSE 0
    IN conf * 1000 + LogTerm(parseFloat(quote.outputAmount))
           + SourceBonus(quote.source) * 1000 - quote.warnings * 50 * 1000

RECURSIVE SortedInsertBeforeEquals(_, _)
\* mutant of SortedInsert: an unstable sort, equal scores change places
SortedInsertBeforeEquals(x, sorted) ==
    IF sorted = <<>> THEN <<x>>
    ELSE IF Head(sorted).score - x.score > 0
         THEN <<Head(sorted)>> \o SortedInsertBeforeEquals(x, Tail(sorted))
         ELSE <<x>> \o sorted

RECURSIVE SortedInsert(_, _)
\* scored.sort((a, b) => b.score - a.score), one element at a time: x goes
\* behind every element the comparator does not put after it, so elements of
\* equal score keep their order (Array.prototype.sort is stable)
SortedInsert(x, sorted) ==
    IF sorted = <<>> THEN <<x>>
    ELSE IF Head(sorted).score - x.score >= 0
         THEN <<Head(sorted)>> \o SortedInsert(x, Tail(sorted))
         ELSE <<x>> \o sorted

RECURSIVE StableSort(_)
StableSort(scored) ==
    IF scored = <<>> THEN <<>>
    ELSE SortedInsert(scored[Len(scored)], StableSort(SubSeq(scored, 1, Len(scored) - 1)))

\* mutant of selectBestQuote: the sort is dropped
selectBestQuoteUnsorted(quotes) == quotes[1]

\* selectBestQuote on a non-empty list: score, sort, return scored[0].quote
selectBestQuote(quotes) ==
    LET scored == [i \in 1..Len(quotes) |->
                     [quote |-> quotes[i], score |-> calculateQuoteScore(quotes[i])]]
    IN StableSort(scored)[1].quote

----------------------------------------------------------------------------
(* QuoteAggregatorService *)

QUOTE_TIMEOUT_MS == 2000
PrimaryFloorMs == 200
PrimaryMarginMs == 100
PrimaryCapMs == 1000
PrimaryMaxRetries == 2
PrimaryBaseDelayMs == 50
PrimaryMaxDelayMs == 200
BackupFloorMs == 300
BackupCapMs == 800
OracleFloorMs == 200
OracleMarginMs == 50

NotInFlight == -1

IdleCall ==
    [pc |-> "idle", startTime |-> 0, finishTime |-> 0,
     results |-> <<>>, errors |-> <<>>,
     remainingTime |-> 0, attempt |-> 0, wakeAt |-> NotInFlight,
     deadline |-> [s \in Sources |-> NotInFlight],
     backupValue |-> [s \in {"dflow", "hashflow"} |-> NoQuote],
     result |-> NoQuote, thrown |-> <<>>,
     \* bookkeeping of the run, read by the properties only
     getQuoteCalls |-> [s \in Sources |-> 0],
     fetches |-> [s \in Sources |-> 0],
     raised |-> [s \in Sources |-> ""],
     returned |-> {},
     \* when getQuote of a source was last called, and the timeoutMs it was given
     issuedAt |-> [s \in Sources |-> NotInFlight],
     timeoutMs |-> [s \in Sources |-> 0]]

\* QUOTE_TIMEOUT_MS - (Date.now() - startTime)
Remaining(c, t) == QUOTE_TIMEOUT_MS - (t - c.startTime)

\* Math.min(remainingTime - 100, 1000), from the remainingTime read before the retry loop
PrimaryTimeout(remainingTime) == Min(remainingTime - PrimaryMarginMs, PrimaryCapMs)

\* Math.min(remainingTime / 2, 800); setTimeout drops the fraction
BackupTimeout(remainingTime) == Min(remainingTime \div 2, BackupCapMs)

\* mutant of OracleTimeout: the margin is taken off the whole budget
OracleTimeoutFromTotal(finalRemainingTime) == QUOTE_TIMEOUT_MS - OracleMarginMs

\* mutant of OracleTimeout: no margin
OracleTimeoutNoMargin(finalRemainingTime) == finalRemainingTime

\* finalRemainingTime - 50
OracleTimeout(finalRemainingTime) == finalRemainingTime - OracleMarginMs

\* mutant of EarlyReturn: off by one in the length test
EarlyReturnOffByOne(results) == Len(results) > 1 /\ results[1].confidence = "high"

\* results.length > 0 && results[0].confidence === 'high'
EarlyReturn(results) == Len(results) > 0 /\ results[1].confidence = "high"

\* mutant of NeedsOracle: the oracle only when nothing at all was collected
NeedsOracleOnlyEmpty(results) == Len(results) = 0

\* mutant of NeedsOracle: an empty list of results does not count
NeedsOracleNonEmpty(results) ==
    Len(results) > 0 /\ \A i \in 1..Len(results) : results[i].confidence = "low"

\* mutant of NeedsOracle: some() for every()
NeedsOracleSomeLow(results) ==
    Len(results) = 0 \/ \E i \in 1..Len(results) : results[i].confidence = "low"

\* results.length === 0 || results.every(r => r.confidence === 'low')
NeedsOracle(results) ==
    Len(results) = 0 \/ \A i \in 1..Len(results) : results[i].confidence = "low"

\* service.getQuote(request, timeoutMs) gets past the breaker: the fetch is in flight
Issue(w, s, t, timeout) ==
    [c |-> [w.c EXCEPT !.deadline[s] = t + timeout,
                       !.getQuoteCalls[s] = @ + 1, !.fetches[s] = @ + 1,
                       !.issuedAt[s] = t, !.timeoutMs[s] = timeout],
     b |-> [w.b EXCEPT ![BreakerOf(s)] = MoveToHalfOpen(@)]]

\* service.getQuote(request, timeoutMs) is refused by the open breaker
Refuse(w, s, t, timeout) ==
    [c |-> [w.c EXCEPT !.getQuoteCalls[s] = @ + 1, !.raised[s] = CircuitOpenError.msg,
                       !.issuedAt[s] = t, !.timeoutMs[s] = timeout],
     b |-> w.b]

PushError(w, error) == [w EXCEPT !.c.errors = Append(@, error.msg)]

\* mutant of Finish: throws as soon as any source failed
FinishThrowsOnAnyError(w, t) ==
    IF Len(w.c.results) = 0 \/ Len(w.c.errors) > 0
    THEN [w EXCEPT !.c.pc = "threw", !.c.thrown = w.c.errors, !.c.finishTime = t]
    ELSE [w EXCEPT !.c.pc = "returned", !.c.result = selectBestQuote(w.c.results),
                   !.c.finishTime = t]

\* the end of executeParallelWithFallback and of getOptimalQuote
Finish(w, t) ==
    IF Len(w.c.results) = 0
    THEN [w EXCEPT !.c.pc = "threw", !.c.thrown = w.c.errors, !.c.finishTime = t]
    ELSE [w EXCEPT !.c.pc = "returned", !.c.result = selectBestQuote(w.c.results),
                   !.c.finishTime = t]

\* "Last resort: Pyth oracle if we have time and no good quotes"
OracleStage(w, t) ==
    IF NeedsOracle(w.c.results) /\ Remaining(w.c, t) > OracleFloorMs
    THEN LET timeout == OracleTimeout(Remaining(w.c, t)) IN
         IF FailsFast(w.b[BreakerOf("pyth-oracle")], t)
         THEN Finish(PushError(Refuse(w, "pyth-oracle", t, timeout), CircuitOpenError), t)
         ELSE LET i == Issue(w, "pyth-oracle", t, timeout)
              IN [i EXCEPT !.c.pc = "oracle"]
    ELSE Finish(w, t)

\* mutant of CollectBackups: Promise.all instead of allSettled, one failed
\* backup discards the other's quote
CollectBackupsAllOrNothing(w, t) ==
    LET both == <<w.c.backupValue["dflow"], w.c.backupValue["hashflow"]>>
        vals == IF NoQuote \in {both[1], both[2]} THEN <<>> ELSE both
    IN OracleStage([w EXCEPT !.c.results = @ \o vals], t)

\* the code after await Promise.allSettled(backupPromises)
CollectBackups(w, t) ==
    LET vals == SelectSeq(<<w.c.backupValue["dflow"], w.c.backupValue["hashflow"]>>,
                          LAMBDA q : q # NoQuote)
    IN OracleStage([w EXCEPT !.c.results = @ \o vals], t)

\* one callback of services.slice(1, 3).map(...), up to its await
BackupCall(w, s, t, timeout) ==
    IF FailsFast(w.b[BreakerOf(s)], t)
    THEN PushError(Refuse(w, s, t, timeout), CircuitOpenError)
    ELSE Issue(w, s, t, timeout)

BackupsInFlight(c) == {s \in {"dflow", "hashflow"} : c.deadline[s] # NotInFlight}

\* "Parallel backup services attempt"
BackupStage(w, t) ==
    LET remainingTime == Remaining(w.c, t) IN
    IF remainingTime > BackupFloorMs
    THEN LET w0 == [w EXCEPT !.c.backupValue = [s \in {"dflow", "hashflow"} |-> NoQuote]]
             w1 == BackupCall(w0, "dflow", t, BackupTimeout(remainingTime))
             w2 == BackupCall(w1, "hashflow", t, BackupTimeout(remainingTime))
         IN IF BackupsInFlight(w2.c) = {} THEN CollectBackups(w2, t)
            ELSE [w2 EXCEPT !.c.pc = "backup"]
    ELSE OracleStage(w, t)

\* "If Jupiter succeeded with high confidence, return early"
AfterPrimary(w, t) ==
    IF EarlyReturn(w.c.results) THEN Finish(w, t) ELSE BackupStage(w, t)

\* executeWithRetry after an attempt threw: rethrow into the catch of the
\* primary stage, or sleep before the next attempt
PrimaryFailed(w, t, error, jitter) ==
    LET r == RetryCatch(error, w.c.attempt, PrimaryMaxRetries) IN
    IF r.kind = "throw" THEN AfterPrimary(PushError(w, r.error), t)
    ELSE [w EXCEPT !.c.pc = "sleep",
                   !.c.wakeAt = t + BackoffDelay(w.c.attempt, PrimaryBaseDelayMs,
                                                 PrimaryMaxDelayMs, jitter)]

\* one pass of the retry loop: operation() is services[0].getQuote
PrimaryAttempt(w, t, jitter) ==
    LET timeout == PrimaryTimeout(w.c.remainingTime) IN
    IF FailsFast(w.b[BreakerOf("jupiter")], t)
    THEN PrimaryFailed(Refuse(w, "jupiter", t, timeout), t, CircuitOpenError, jitter)
    ELSE LET i == Issue(w, "jupiter", t, timeout)
         IN [i EXCEPT !.c.pc = "primary"]

\* "Primary attempt: Jupiter"
PrimaryStage(w, t, jitter) ==
    LET remainingTime == Remaining(w.c, t) IN
    IF remainingTime > PrimaryFloorMs
    THEN PrimaryAttempt([w EXCEPT !.c.remainingTime = remainingTime, !.c.attempt = 0],
                        t, jitter)
    ELSE AfterPrimary(w, t)

\* the fetch of source s resolved with quote q: CircuitBreaker.execute runs onSuccess
Resolved(w, s, q) ==
    [c |-> [w.c EXCEPT !.deadline[s] = NotInFlight, !.returned = @ \cup {q}],
     b |-> [w.b EXCEPT ![BreakerOf(s)] = onSuccess(@)]]

\* the fetch of source s rejected with error at time t: execute runs onFailure and rethrows
Rejected(w, s, t, error) ==
    [c |-> [w.c EXCEPT !.deadline[s] = NotInFlight, !.raised[s] = error.msg],
     b |-> [w.b EXCEPT ![BreakerOf(s)] = onFailure(@, t, BreakerOf(s))]]

\* what an in-flight fetch can reject with now: the abort only when its timer fires
SettleErrors(c, s) ==
    FetchErrors(s) \cup (IF now = c.deadline[s] THEN {AbortError} ELSE {})

World(c) == [c |-> calls[c], b |-> breaker]

Commit(c, w) ==
    /\ calls' = [calls EXCEPT ![c] = w.c]
    /\ breaker' = w.b

OtherSpecsUnchanged == UNCHANGED <<clients, ops, hist, retry, score, parsed>>

----------------------------------------------------------------------------
(* CircuitBreaker.execute called directly, by concurrent callers *)

\* the two breaker configurations that the services construct
BreakerSources == {"jupiter", "pyth-oracle"}

IdleClient == [pc |-> "idle", source |-> "none", trial |-> FALSE, seq |-> 0]

\* what an observer of the calls through one breaker has seen
InitialHistory ==
    [consecFails |-> 0,      \* operations that failed since the last one that succeeded
     openedAt |-> NotInFlight, \* when the breaker last went from not open to open
     overlapped |-> FALSE,   \* two operations of this breaker were in flight together
     earlyAdmit |-> FALSE,   \* an operation was invoked less than the open duration after openedAt
     last |-> "none"]        \* the last event: refused, admitted, success, trialSuccess, failure

Running(s) == {x \in Clients : clients[x].pc = "running" /\ clients[x].source = s}

AggregatorUnchanged == UNCHANGED <<calls, started, retry, score, parsed>>

\* execute(operation) on an open breaker before nextAttemptTime: throws at once
ExecuteRefused(x, s) ==
    /\ clients[x].pc = "idle"
    /\ ops < MaxOps
    /\ FailsFast(breaker[s], now)
    /\ ops' = ops + 1
    /\ hist' = [hist EXCEPT ![s].last = "refused"]
    /\ UNCHANGED <<now, breaker, clients>>
    /\ AggregatorUnchanged

\* execute(operation) up to await operation(): the operation is invoked
ExecuteAdmitted(x, s) ==
    /\ clients[x].pc = "idle"
    /\ ops < MaxOps
    /\ ~FailsFast(breaker[s], now)
    /\ ops' = ops + 1
    /\ breaker' = [breaker EXCEPT ![s] = MoveToHalfOpen(@)]
    /\ clients' = [clients EXCEPT ![x] = [pc |-> "running", source |-> s,
                                          trial |-> breaker[s].isOpen, seq |-> ops + 1]]
    /\ hist' = [hist EXCEPT
                  ![s].last = "admitted",
                  ![s].overlapped = @ \/ Running(s) # {},
                  ![s].earlyAdmit = @ \/ (hist[s].openedAt # NotInFlight
                                          /\ now < hist[s].openedAt + halfOpenRetryDelayMs(s))]
    /\ UNCHANGED now
    /\ AggregatorUnchanged

\* the operation resolved: onSuccess, the result is returned
OperationSucceeds(x) ==
    /\ clients[x].pc = "running"
    /\ LET s == clients[x].source IN
         /\ breaker' = [breaker EXCEPT ![s] = onSuccess(@)]
         /\ hist' = [hist EXCEPT
                       ![s].consecFails = 0,
                       ![s].last = IF clients[x].trial THEN "trialSuccess" ELSE "success"]
    /\ clients' = [clients EXCEPT ![x] = IdleClient]
    /\ UNCHANGED <<now, ops>>
    /\ AggregatorUnchanged

\* the operation rejected: onFailure, the error is rethrown
OperationFails(x) ==
    /\ clients[x].pc = "running"
    /\ LET s == clients[x].source
           b == onFailure(breaker[s], now, s)
       IN /\ breaker' = [breaker EXCEPT ![s] = b]
          /\ hist' = [hist EXCEPT
                        ![s].consecFails = @ + 1,
                        ![s].openedAt = IF ~breaker[s].isOpen /\ b.isOpen THEN now ELSE @,
                        ![s].last = "failure"]
    /\ clients' = [clients EXCEPT ![x] = IdleClient]
    /\ UNCHANGED <<now, ops>>
    /\ AggregatorUnchanged

TickBreaker ==
    /\ now < MaxBreakerTime
    /\ now' = now + BreakerStep
    /\ UNCHANGED <<breaker, clients, ops, hist>>
    /\ AggregatorUnchanged

----------------------------------------------------------------------------
(* RetryManager.executeWithRetry called directly *)

\* what an operation handed to executeWithRetry can reject with: an Error
\* object or a bare string, transient or of a kind that must not be retried
OperationErrors ==
    {Err("fetch failed"), Str("fetch failed"), Err("unauthorized"), Str("unauthorized")}

\* (maxRetries, baseDelayMs, maxDelayMs): the arguments of the primary stage
\* and the defaults of executeWithRetry
RetryArguments ==
    {[maxRetries |-> PrimaryMaxRetries, baseDelayMs |-> PrimaryBaseDelayMs,
      maxDelayMs |-> PrimaryMaxDelayMs],
     [maxRetries |-> 3, baseDelayMs |-> 100, maxDelayMs |-> 1000]}

\* the breaker that guards the operation of a guarded run: the operation is
\* then () => circuitBreaker.execute(...), as in JupiterService.getQuote
GuardSource == "jupiter"

IdleRetry ==
    [pc |-> "idle", runs |-> 0, args |-> CHOOSE a \in RetryArguments : TRUE,
     \* the operation: rejects `fails` times with `error`, then resolves;
     \* guarded: it runs inside CircuitBreaker.execute
     fails |-> 0, error |-> Err("fetch failed"), guarded |-> FALSE,
     attempt |-> 0, invocations |-> 0, sleeps |-> 0, wakeAt |-> NotInFlight,
     thrown |-> Err(""),
     \* bookkeeping: calls that reached the operation behind the breaker, and
     \* the first failure of the run that met or left the breaker open
     fetches |-> 0, broke |-> FALSE, brokeError |-> Err("")]

OthersUnchanged == UNCHANGED <<calls, started, clients, ops, hist, score, parsed>>

\* the catch block of executeWithRetry, then the throw after the loop or the
\* start of the backoff sleep
RetryCaught(r, error, t, jitter) ==
    LET c == RetryCatch(error, r.attempt, r.args.maxRetries) IN
    IF c.kind = "throw"
    THEN [r EXCEPT !.pc = "threw", !.thrown = c.error]
    ELSE [r EXCEPT !.pc = "sleeping", !.sleeps = @ + 1,
                   !.wakeAt = t + BackoffDelay(r.attempt, r.args.baseDelayMs,
                                               r.args.maxDelayMs, jitter)]

\* a failure seen with the breaker open: the first one of the run is kept
Broke(r, error) ==
    IF r.broke THEN r ELSE [r EXCEPT !.broke = TRUE, !.brokeError = error]

\* await operation(): a guarded operation is refused at once by an open
\* breaker, otherwise the operation is in flight
RetryInvoke(r, b, t, jitter) ==
    LET r1 == [r EXCEPT !.invocations = @ + 1] IN
    IF r.guarded /\ FailsFast(b, t)
    THEN [r |-> RetryCaught(Broke(r1, CircuitOpenError), CircuitOpenError, t, jitter),
          b |-> b]
    ELSE [r |-> [r1 EXCEPT !.pc = "running", !.fetches = @ + 1],
          b |-> IF r.guarded THEN MoveToHalfOpen(b) ELSE b]

\* executeWithRetry(operation, maxRetries, baseDelayMs, maxDelayMs) up to the
\* first await operation()
RetryStart(args, fails, error, guarded) ==
    /\ retry.pc \in {"idle", "returned", "threw"}
    /\ retry.runs < MaxRuns
    /\ \E jitter \in Jitters :
         LET i == RetryInvoke([IdleRetry EXCEPT !.runs = retry.runs + 1, !.args = args,
                                  !.fails = fails, !.error = error, !.guarded = guarded],
                              breaker[GuardSource], now, jitter)
         IN /\ retry' = i.r
            /\ breaker' = [breaker EXCEPT ![GuardSource] = i.b]
    /\ UNCHANGED now
    /\ OthersUnchanged

\* the operation resolved: return await operation()
RetryOperationSucceeds ==
    /\ retry.pc = "running"
    /\ retry.fetches > retry.fails
    /\ retry' = [retry EXCEPT !.pc = "returned"]
    /\ breaker' = IF retry.guarded
                  THEN [breaker EXCEPT ![GuardSource] = onSuccess(@)]
                  ELSE breaker
    /\ UNCHANGED now
    /\ OthersUnchanged

\* the operation rejected: onFailure of the breaker if there is one, then
\* the catch block
RetryOperationFails ==
    /\ retry.pc = "running"
    /\ retry.fetches <= retry.fails
    /\ LET b == IF retry.guarded THEN onFailure(breaker[GuardSource], now, GuardSource)
                ELSE breaker[GuardSource]
           r == IF retry.guarded /\ b.isOpen THEN Broke(retry, retry.error) ELSE retry
       IN /\ \E jitter \in Jitters : retry' = RetryCaught(r, retry.error, now, jitter)
          /\ breaker' = [breaker EXCEPT ![GuardSource] = b]
    /\ UNCHANGED now
    /\ OthersUnchanged

\* the backoff timer fires: attempt++ and await operation() again
RetryWake ==
    /\ retry.pc = "sleeping"
    /\ now = retry.wakeAt
    /\ \E jitter \in Jitters :
         LET i == RetryInvoke([retry EXCEPT !.attempt = @ + 1, !.wakeAt = NotInFlight],
                              breaker[GuardSource], now, jitter)
         IN /\ retry' = i.r
            /\ breaker' = [breaker EXCEPT ![GuardSource] = i.b]
    /\ UNCHANGED now
    /\ OthersUnchanged

TickRetry ==
    /\ now < MaxRetryTime
    /\ retry.pc \in {"running", "sleeping"}
    /\ now' = IF retry.pc = "sleeping" THEN retry.wakeAt ELSE now + OperationLatencyMs
    /\ now' > now
    /\ UNCHANGED <<retry, breaker>>
    /\ OthersUnchanged

----------------------------------------------------------------------------
(* selectBestQuote called directly *)

\* amounts below and above 2^53, where doubles stop telling integers apart
ScoreAmounts == {"1000000", "9007199254740992", "9007199254740993"}

\* the fields of a QuoteResponse that the scorer reads; warnings is
\* warnings.length
ScoreQuotes ==
    [source : Sources, confidence : {"high", "medium"},
     outputAmount : ScoreAmounts, warnings : {0, 1}]

IdleScore == [pc |-> "idle", quotes |-> <<>>, best |-> NoQuote]

\* selectBestQuote(quotes) on a non-empty list
SelectBest(quotes) ==
    /\ score.pc = "idle"
    /\ score' = [pc |-> "done", quotes |-> quotes, best |-> selectBestQuote(quotes)]
    /\ UNCHANGED <<now, breaker, calls, started, clients, ops, hist, retry, parsed>>

----------------------------------------------------------------------------
(* The response handling of JupiterQuoteService.getQuote on its own *)

IdleParsed == [pc |-> "idle", data |-> CHOOSE d \in JupiterData : TRUE, quote |-> NoQuote]

\* response.json() resolved with data: the quote that getQuote returns
JupiterResponds(data) ==
    /\ parsed.pc = "idle"
    /\ parsed' = [pc |-> "done", data |-> data, quote |-> JupiterQuote(data)]
    /\ UNCHANGED <<now, breaker, calls, started, clients, ops, hist, retry, score>>

----------------------------------------------------------------------------
(* Actions of the aggregator *)

\* getOptimalQuote(request), up to its first await.  Requests arrive at
\* multiples of ArrivalStep, one after the other.
StartCall(c) ==
    /\ calls[c].pc \in {"idle", "returned", "threw"}
    /\ started < MaxCalls
    /\ now % ArrivalStep = 0
    /\ \E jitter \in Jitters :
         Commit(c, PrimaryStage([c |-> [IdleCall EXCEPT !.startTime = now], b |-> breaker],
                                now, jitter))
    /\ started' = started + 1
    /\ UNCHANGED now
    /\ OtherSpecsUnchanged

PrimarySucceeds(c) ==
    /\ calls[c].pc = "primary"
    /\ \E q \in QuotesOf("jupiter") :
         LET w == Resolved(World(c), "jupiter", q)
         IN Commit(c, AfterPrimary([w EXCEPT !.c.results = Append(@, q)], now))
    /\ UNCHANGED <<now, started>>
    /\ OtherSpecsUnchanged

PrimaryFails(c) ==
    /\ calls[c].pc = "primary"
    /\ \E error \in SettleErrors(calls[c], "jupiter"), jitter \in Jitters :
         Commit(c, PrimaryFailed(Rejected(World(c), "jupiter", now, error), now, error, jitter))
    /\ UNCHANGED <<now, started>>
    /\ OtherSpecsUnchanged

\* the backoff timer of executeWithRetry fires: next pass of the loop
PrimaryRetry(c) ==
    /\ calls[c].pc = "sleep"
    /\ now = calls[c].wakeAt
    /\ \E jitter \in Jitters :
         LET w == World(c)
         IN Commit(c, PrimaryAttempt([w EXCEPT !.c.attempt = @ + 1, !.c.wakeAt = NotInFlight],
                                     now, jitter))
    /\ UNCHANGED <<now, started>>
    /\ OtherSpecsUnchanged

\* mutant of BackupDone: allSettled is never resumed
BackupDoneNeverResumes(w, t) == w

\* mutant of BackupDone: Promise.race, the first backup to settle resumes
\* the stage
BackupDoneOnFirst(w, t) == CollectBackups(w, t)

\* a backup callback is resumed; the last one to settle resumes allSettled
BackupDone(w, t) ==
    IF BackupsInFlight(w.c) = {} THEN CollectBackups(w, t) ELSE w

BackupSucceeds(c, s) ==
    /\ calls[c].pc = "backup"
    /\ s \in BackupsInFlight(calls[c])
    /\ \E q \in QuotesOf(s) :
         LET w == Resolved(World(c), s, q)
         IN Commit(c, BackupDone([w EXCEPT !.c.backupValue[s] = q], now))
    /\ UNCHANGED <<now, started>>
    /\ OtherSpecsUnchanged

BackupFails(c, s) ==
    /\ calls[c].pc = "backup"
    /\ s \in BackupsInFlight(calls[c])
    /\ \E error \in SettleErrors(calls[c], s) :
         Commit(c, BackupDone(PushError(Rejected(World(c), s, now, error), error), now))
    /\ UNCHANGED <<now, started>>
    /\ OtherSpecsUnchanged

OracleSucceeds(c) ==
    /\ calls[c].pc = "oracle"
    /\ \E q \in QuotesOf("pyth-oracle") :
         LET w == Resolved(World(c), "pyth-oracle", q)
         IN Commit(c, Finish([w EXCEPT !.c.results = Append(@, q)], now))
    /\ UNCHANGED <<now, started>>
    /\ OtherSpecsUnchanged

OracleFails(c) ==
    /\ calls[c].pc = "oracle"
    /\ \E error \in SettleErrors(calls[c], "pyth-oracle") :
         Commit(c, Finish(PushError(Rejected(World(c), "pyth-oracle", now, error), error), now))
    /\ UNCHANGED <<now, started>>
    /\ OtherSpecsUnchanged

\* the timers pending in the aggregator: fetch aborts and backoff sleeps
PendingTimers ==
    ({calls[c].deadline[s] : c \in Callers, s \in Sources}
        \cup {calls[c].wakeAt : c \in Callers}) \ {NotInFlight}

MinOf(S) == CHOOSE x \in S : \A y \in S : x <= y

\* the next instant at which a request may arrive
NextArrival == (now \div ArrivalStep + 1) * ArrivalStep

\* Time passes, but not past a pending timer: every fetch is cut off at its
\* timeout.  The record of a finished call is what its caller received at
\* that instant; it is dropped when time moves on.
Tick ==
    /\ now < MaxTime
    /\ now' = MinOf(PendingTimers \cup {now + TimeStep, NextArrival})
    /\ now' > now
    /\ calls' = [c \in Callers |->
                    IF calls[c].pc \in {"returned", "threw"} THEN IdleCall ELSE calls[c]]
    /\ UNCHANGED <<breaker, started>>
    /\ OtherSpecsUnchanged

Init ==
    /\ now = 0
    /\ breaker = [s \in Sources |-> InitialBreakerState]
    /\ calls = [c \in Callers |-> IdleCall]
    /\ started = 0
    /\ clients = [x \in Clients |-> IdleClient]
    /\ ops = 0
    /\ hist = [s \in BreakerSources |-> InitialHistory]
    /\ retry = IdleRetry
    /\ score = IdleScore
    /\ parsed = IdleParsed

\* PrimaryRetry is left out: PrimaryNeverSleeps (below) shows that no
\* reachable state enables it.
Next ==
    \/ \E c \in Callers : StartCall(c)
    \/ \E c \in Callers : PrimarySucceeds(c)
    \/ \E c \in Callers : PrimaryFails(c)
    \/ \E c \in Callers, s \in {"dflow", "hashflow"} : BackupSucceeds(c, s)
    \/ \E c \in Callers, s \in {"dflow", "hashflow"} : BackupFails(c, s)
    \/ \E c \in Callers : OracleSucceeds(c)
    \/ \E c \in Callers : OracleFails(c)
    \/ Tick

Spec == Init /\ [][Next]_vars

----------------------------------------------------------------------------
(* Properties of the aggregator *)

Finished(c) == calls[c].pc \in {"returned", "threw"}
InProgress(c) == calls[c].pc \in {"primary", "sleep", "backup", "oracle"}
Failed(c, s) == calls[c].raised[s] # ""
QuotesFrom(c, s) == {q \in calls[c].returned : q.source = s}
Elements(seq) == {seq[i] : i \in 1..Len(seq)}

\* The retry loop of the primary stage never reaches its backoff sleep: every
\* failure of services[0].getQuote is an Error object, on which
\* isNonRetryableError throws.  PrimaryRetry is therefore never enabled.
PrimaryNeverSleeps == \A c \in Callers : calls[c].pc # "sleep"

\* C1: every getOptimalQuote call has completed (returned or thrown) no later
\* than QUOTE_TIMEOUT_MS after it started: a finished call took at most that
\* long, and no call is still running once that long has passed.
C1_WithinDeadline ==
    \A c \in Callers :
        /\ Finished(c) => calls[c].finishTime - calls[c].startTime <= QUOTE_TIMEOUT_MS
        /\ InProgress(c) => now - calls[c].startTime <= QUOTE_TIMEOUT_MS

\* a call that ran all three stages to their timeouts and then finished
C1_Witness ==
    \E c \in Callers :
        /\ Finished(c)
        /\ calls[c].finishTime - calls[c].startTime > QUOTE_TIMEOUT_MS - 100
        /\ \A s \in Sources : calls[c].fetches[s] = 1

\* C2: a call in which some source returned a quote returns a quote, one of
\* those collected in the call, whatever the other sources did.
C2_PartialFailure ==
    \A c \in Callers :
        (Finished(c) /\ calls[c].returned # {}) =>
            /\ calls[c].pc = "returned"
            /\ calls[c].result \in calls[c].returned
            /\ calls[c].result \in Elements(calls[c].results)

\* a call that returned a quote although one source failed in flight and
\* another was refused by its open breaker
C2_Witness ==
    \E c \in Callers :
        /\ calls[c].pc = "returned"
        /\ \E s \in Sources : calls[c].raised[s] = CircuitOpenError.msg
        /\ \E s \in Sources : Failed(c, s) /\ calls[c].fetches[s] = 1

\* C3: when the call throws, the aggregate error holds, for every source that
\* was invoked, the failure message that this source raised.
C3_AggregateListsEverySource ==
    \A c \in Callers :
        calls[c].pc = "threw" =>
            \A s \in Sources :
                Failed(c, s) => calls[c].raised[s] \in Elements(calls[c].thrown)

\* C4: a high-confidence primary quote ends the call at once with that quote,
\* and neither backup nor the oracle was touched.
C4_EarlyReturn ==
    \A c \in Callers :
        \A q \in QuotesFrom(c, "jupiter") :
            q.confidence = "high" =>
                /\ calls[c].pc = "returned"
                /\ calls[c].result = q
                /\ \A s \in Sources \ {"jupiter"} :
                       calls[c].getQuoteCalls[s] = 0 /\ calls[c].fetches[s] = 0

C4_Witness ==
    \E c \in Callers :
        /\ calls[c].pc = "returned"
        /\ calls[c].result.source = "jupiter"
        /\ calls[c].result.confidence = "high"
        /\ calls[c].fetches["jupiter"] = 1

\* C5: primary failed, DFlow alone answered (medium confidence), every other
\* source failed: the call returns the DFlow quote and does not throw.
OnlyDFlowAnswered(c) ==
    /\ Finished(c)
    /\ Failed(c, "jupiter")
    /\ Failed(c, "hashflow")
    /\ QuotesFrom(c, "dflow") # {}
    /\ \A q \in calls[c].returned : q.source = "dflow" /\ q.confidence = "medium"

C5_SingleMediumBackup ==
    \A c \in Callers :
        OnlyDFlowAnswered(c) =>
            /\ calls[c].pc = "returned"
            /\ calls[c].result \in QuotesFrom(c, "dflow")
            /\ calls[c].result.confidence = "medium"

C5_Witness ==
    \E c \in Callers :
        /\ OnlyDFlowAnswered(c)
        /\ calls[c].fetches["jupiter"] = 1
        /\ calls[c].fetches["hashflow"] = 1

NextBreaker ==
    \/ \E x \in Clients, s \in BreakerSources : ExecuteRefused(x, s)
    \/ \E x \in Clients, s \in BreakerSources : ExecuteAdmitted(x, s)
    \/ \E x \in Clients : OperationSucceeds(x)
    \/ \E x \in Clients : OperationFails(x)
    \/ TickBreaker

SpecBreaker == Init /\ [][NextBreaker]_vars

----------------------------------------------------------------------------
(* Properties of the breaker *)

\* C6: as long as the calls through a breaker have come one at a time:
\* once failureThreshold operations in a row have failed the breaker is open,
\* no operation is invoked before the open duration has elapsed, and with
\* fewer failures since the last success the breaker is not open.
C6_OpensAtThreshold ==
    \A s \in BreakerSources :
        ~hist[s].overlapped =>
            /\ (hist[s].consecFails >= failureThreshold(s) /\ Running(s) = {})
                   => breaker[s].isOpen
            /\ ~hist[s].earlyAdmit
            /\ hist[s].consecFails < failureThreshold(s) => ~breaker[s].isOpen

\* exactly failureThreshold failures one after the other, then a refused call
C6_Witness ==
    \E s \in BreakerSources :
        /\ ~hist[s].overlapped
        /\ hist[s].consecFails = failureThreshold(s)
        /\ breaker[s].isOpen
        /\ hist[s].last = "refused"
        /\ now < breaker[s].nextAttemptTime

\* C7: right after the half-open trial succeeded the breaker is closed and
\* its failure count is zero.
C7_TrialSuccessCloses ==
    \A s \in BreakerSources :
        hist[s].last = "trialSuccess" =>
            ~breaker[s].isOpen /\ breaker[s].failureCount = 0

C7_Witness ==
    \E s \in BreakerSources :
        /\ hist[s].last = "trialSuccess"
        /\ hist[s].openedAt # NotInFlight
        /\ now >= hist[s].openedAt + halfOpenRetryDelayMs(s)

\* C8: while a half-open trial is in flight no later call of the same
\* breaker has its operation in flight.
C8_SingleTrial ==
    \A x \in Clients :
        (clients[x].pc = "running" /\ clients[x].trial) =>
            \A y \in Running(clients[x].source) : clients[y].seq <= clients[x].seq

\* C9: from the moment a breaker opens until its open duration has elapsed
\* no operation is invoked through it.
C9_NoAdmissionWhileOpen ==
    \A s \in BreakerSources : ~hist[s].earlyAdmit

\* README: "Circuit breaker tracks failures per service it opens after 3
\* failures, preventing calls for 5 seconds"
ReadmeFailureThreshold == 3
ReadmeOpenMs == 5000

\* C18: the breaker of every service opens after 3 failures and, once open,
\* prevents calls for 5 seconds: an open breaker has counted at least 3
\* failures and refuses calls until 5000 ms after the failure that opened it.
C18_ThreeFailuresFiveSeconds ==
    \A s \in BreakerSources :
        breaker[s].isOpen =>
            /\ breaker[s].failureCount >= ReadmeFailureThreshold
            /\ breaker[s].nextAttemptTime = breaker[s].lastFailureTime + ReadmeOpenMs

\* C23: a call of execute made while the breaker is open and its
\* nextAttemptTime has not come does not invoke the operation and leaves
\* isOpen, failureCount, lastFailureTime and nextAttemptTime as they were.
C23_FastFailChangesNothing ==
    [][ops' = ops + 1 =>
          /\ \A x \in Clients :
                 (clients[x].pc = "idle" /\ clients'[x].pc = "running") =>
                     LET b == breaker[clients'[x].source]
                     IN ~(b.isOpen /\ now < b.nextAttemptTime)
          /\ clients' = clients => breaker' = breaker]_vars

\* a call has just been refused by an open breaker with nothing in flight
C23_Witness ==
    \E s \in BreakerSources :
        /\ hist[s].last = "refused"
        /\ Running(s) = {}
        /\ breaker[s].isOpen
        /\ breaker[s].failureCount >= failureThreshold(s)

\* C25: whatever the interleaving of the calls, an open breaker has counted
\* at least failureThreshold failures, and the failure count goes back to
\* zero only in a step in which an operation succeeded, which leaves the
\* breaker not open.
C25_OpenMeansThreshold ==
    [][\A s \in BreakerSources :
          /\ breaker'[s].isOpen => breaker'[s].failureCount >= failureThreshold(s)
          /\ (breaker[s].failureCount > 0 /\ breaker'[s].failureCount = 0) =>
                 /\ hist'[s].last \in {"success", "trialSuccess"}
                 /\ \E x \in Running(s) : clients'[x].pc = "idle"
                 /\ ~breaker'[s].isOpen]_vars

\* a breaker is open while calls overlapped and one is still in flight
C25_Witness ==
    \E s \in BreakerSources :
        /\ breaker[s].isOpen
        /\ hist[s].overlapped
        /\ Running(s) # {}

\* C26: when the trial call admitted after the open duration fails, the
\* breaker is open again right after that one failure, with nextAttemptTime
\* at the time of the failure plus the open duration.
C26_FailedTrialReopens ==
    [][\A x \in Clients :
          (/\ clients[x].pc = "running" /\ clients[x].trial
           /\ clients'[x].pc = "idle"
           /\ hist'[clients[x].source].last = "failure")
          => LET s == clients[x].source
             IN /\ breaker'[s].isOpen
                /\ breaker'[s].nextAttemptTime = now + halfOpenRetryDelayMs(s)]_vars

\* C27: the nextAttemptTime of an open breaker is the time of the failure
\* that opened it plus the open duration: failures that settle while the
\* breaker is open do not move it.
C27_WindowNotExtended ==
    \A s \in BreakerSources :
        breaker[s].isOpen =>
            breaker[s].nextAttemptTime = hist[s].openedAt + halfOpenRetryDelayMs(s)

NextRetry ==
    \/ \E args \in RetryArguments, fails \in 0..MaxFails, error \in OperationErrors,
          guarded \in BOOLEAN :
          RetryStart(args, fails, error, guarded)
    \/ RetryOperationSucceeds
    \/ RetryOperationFails
    \/ RetryWake
    \/ TickRetry

SpecRetry == Init /\ [][NextRetry]_vars

----------------------------------------------------------------------------
(* Properties of the retry manager *)

Retryable(error) == error.msg \notin NonRetryableText

\* C10: an operation that fails k < maxAttempts times with a retryable error
\* and then succeeds makes the wrapper return that success, and no run
\* invokes the operation more than maxAttempts times (maxAttempts being the
\* second argument of executeWithRetry).
C10_RetryThenSuccess ==
    /\ (retry.pc \in {"returned", "threw"} /\ ~retry.guarded
            /\ retry.fails < retry.args.maxRetries /\ Retryable(retry.error))
        => retry.pc = "returned"
    /\ retry.invocations <= retry.args.maxRetries

\* C11: when the first invocation of the operation fails with a
\* non-retryable error (invalid input, unauthorized, not found), the run
\* invokes the operation exactly once, never sleeps, and throws that same
\* failure to its caller.
C11_NonRetryableOnce ==
    (retry.pc \in {"returned", "threw"} /\ ~retry.guarded
        /\ retry.fails >= 1 /\ ~Retryable(retry.error))
        => /\ retry.invocations = 1
           /\ retry.sleeps = 0
           /\ retry.pc = "threw"
           /\ retry.thrown = retry.error

\* C12: when the operation is guarded by a circuit breaker and an attempt
\* fails with the breaker open (the circuit-open error, or the failure that
\* opened the breaker), the wrapper makes no further attempt: it stops
\* without sleeping and throws that failure.
C12_StopsOnOpenBreaker ==
    (retry.guarded /\ retry.broke)
        => retry.pc = "threw" /\ retry.thrown = retry.brokeError

----------------------------------------------------------------------------
(* Further properties of the aggregator *)

\* C13: the oracle is called only when, at that moment, no quote has been
\* collected or every collected quote is of low confidence, and more than
\* OracleFloorMs of the budget remains; it is never called with a medium or
\* high quote already collected.
C13_OracleOnlyAsLastResort ==
    \A c \in Callers :
        calls[c].getQuoteCalls["pyth-oracle"] > 0 =>
            /\ \A q \in Elements(calls[c].results) :
                   q.source # "pyth-oracle" => q.confidence = "low"
            /\ Remaining(calls[c], calls[c].issuedAt["pyth-oracle"]) > OracleFloorMs

\* the oracle was called with low-confidence quotes in hand
C13_Witness ==
    \E c \in Callers :
        /\ calls[c].fetches["pyth-oracle"] = 1
        /\ \E q \in Elements(calls[c].results) :
               q.source # "pyth-oracle" /\ q.confidence = "low"

\* C14: the breaker of a source changes only in a step in which a call of
\* that very source was issued or settled, and a call of a source is refused
\* only when that source's own breaker is open: what happens on one source
\* neither changes nor is decided by the breaker of another.
C14_FaultIsolation ==
    [][\A s \in Sources :
          /\ breaker'[s] # breaker[s] =>
                 \E c \in Callers : calls'[c].deadline[s] # calls[c].deadline[s]
          /\ \A c \in Callers :
                 (/\ calls'[c].raised[s] = CircuitOpenError.msg
                  /\ calls'[c].issuedAt[s] = now
                  /\ \/ started' # started
                     \/ calls'[c].getQuoteCalls[s] # calls[c].getQuoteCalls[s])
                 => FailsFast(breaker[s], now)]_vars

\* one source refused by its open breaker while another source, its breaker
\* untouched, returned a quote in the same call
C14_Witness ==
    \E c \in Callers :
        /\ calls[c].raised["jupiter"] = CircuitOpenError.msg
        /\ breaker["jupiter"].isOpen
        /\ QuotesFrom(c, "dflow") # {}
        /\ ~breaker["dflow"].isOpen

\* C17: getOptimalQuote throws only if all services fail: in a call that
\* threw, getQuote of each of the four services was called and threw, and no
\* service returned a quote.
C17_ThrowsOnlyIfAllFail ==
    \A c \in Callers :
        calls[c].pc = "threw" =>
            /\ \A s \in Sources : calls[c].getQuoteCalls[s] >= 1 /\ Failed(c, s)
            /\ calls[c].returned = {}

\* a call threw after the fetch of every service had been tried
C17_Witness ==
    \E c \in Callers :
        /\ calls[c].pc = "threw"
        /\ \A s \in Sources : calls[c].fetches[s] = 1

\* the margin kept back from the remaining budget when a call of source s is
\* issued; the backup stage has none of its own and is held to the smallest
StageMarginMs(s) == IF s = "jupiter" THEN PrimaryMarginMs ELSE OracleMarginMs

\* C19: every getQuote call the aggregator makes is given a positive
\* timeout of at most the budget remaining at the moment of that call, less
\* the safety margin.
C19_TimeoutWithinRemaining ==
    \A c \in Callers : \A s \in Sources :
        calls[c].getQuoteCalls[s] > 0 =>
            /\ calls[c].timeoutMs[s] > 0
            /\ calls[c].timeoutMs[s]
                   <= Remaining(calls[c], calls[c].issuedAt[s]) - StageMarginMs(s)

\* the three stages were issued at three different instants of one call
C19_Witness ==
    \E c \in Callers :
        /\ \A s \in Sources : calls[c].fetches[s] = 1
        /\ calls[c].issuedAt["jupiter"] < calls[c].issuedAt["dflow"]
        /\ calls[c].issuedAt["dflow"] < calls[c].issuedAt["pyth-oracle"]

\* C20: both backups are called before either is awaited; once the stage is
\* over both have settled and every quote a backup returned is among the
\* results, whatever happened to the other; and the stage is over no later
\* than its timeout after it began.
C20_BackupFanOut ==
    \A c \in Callers :
        LET r == calls[c]
            began == r.issuedAt["dflow"]
            over == r.pc \in {"oracle", "returned", "threw"}
        IN /\ r.getQuoteCalls["dflow"] = r.getQuoteCalls["hashflow"]
           /\ r.issuedAt["dflow"] = r.issuedAt["hashflow"]
           /\ over => /\ BackupsInFlight(r) = {}
                       /\ (QuotesFrom(c, "dflow") \cup QuotesFrom(c, "hashflow"))
                              \subseteq Elements(r.results)
           /\ r.pc = "backup" => now <= began + r.timeoutMs["dflow"]
           /\ r.getQuoteCalls["pyth-oracle"] > 0 =>
                  r.issuedAt["pyth-oracle"] <= began + r.timeoutMs["dflow"]
           /\ (Finished(c) /\ began # NotInFlight /\ r.getQuoteCalls["pyth-oracle"] = 0) =>
                  r.finishTime <= began + r.timeoutMs["dflow"]

\* one backup failed first, the other then returned a quote that was kept
C20_Witness ==
    \E c \in Callers :
        /\ calls[c].pc \in {"oracle", "returned"}
        /\ Failed(c, "dflow") /\ calls[c].fetches["dflow"] = 1
        /\ QuotesFrom(c, "hashflow") # {}
        /\ calls[c].issuedAt["dflow"] < now

\* C21: when the primary returned a low-confidence quote and no backup
\* returned a medium- or high-confidence one, the oracle is called in that
\* call once the backup stage is over (unless no more than OracleFloorMs of
\* the budget is left), and every quote the oracle returns has confidence low
\* and three warnings.
C21_OracleAfterLowPrimary ==
    \A c \in Callers :
        /\ (/\ calls[c].pc \in {"oracle", "returned", "threw"}
            /\ \E q \in QuotesFrom(c, "jupiter") : q.confidence = "low"
            /\ \A q \in QuotesFrom(c, "dflow") \cup QuotesFrom(c, "hashflow") :
                   q.confidence = "low")
           => \/ calls[c].getQuoteCalls["pyth-oracle"] >= 1
              \/ Finished(c) /\ Remaining(calls[c], calls[c].finishTime) <= OracleFloorMs
        /\ \A q \in QuotesFrom(c, "pyth-oracle") : q.confidence = "low" /\ q.warnings = 3

\* low primary quote, both backups failed, the oracle returned its quote
C21_Witness ==
    \E c \in Callers :
        /\ Finished(c)
        /\ \E q \in QuotesFrom(c, "jupiter") : q.confidence = "low"
        /\ Failed(c, "dflow") /\ Failed(c, "hashflow")
        /\ QuotesFrom(c, "pyth-oracle") # {}

----------------------------------------------------------------------------
(* Termination of getOptimalQuote *)

\* number of getOptimalQuote calls followed to their end
LiveCalls == 1

NextLive ==
    \/ \E c \in Callers : started < LiveCalls /\ StartCall(c)
    \/ \E c \in Callers : PrimarySucceeds(c)
    \/ \E c \in Callers : PrimaryFails(c)
    \/ \E c \in Callers, s \in {"dflow", "hashflow"} : BackupSucceeds(c, s)
    \/ \E c \in Callers, s \in {"dflow", "hashflow"} : BackupFails(c, s)
    \/ \E c \in Callers : OracleSucceeds(c)
    \/ \E c \in Callers : OracleFails(c)
    \/ Tick

\* every upstream call in flight eventually responds or is aborted by its
\* timer (a fetch cannot outlive its deadline: Tick stops there), and time
\* passes
Fairness ==
    /\ WF_vars(Tick)
    /\ \A c \in Callers :
          /\ WF_vars(PrimarySucceeds(c) \/ PrimaryFails(c))
          /\ WF_vars(\E s \in {"dflow", "hashflow"} : BackupSucceeds(c, s) \/ BackupFails(c, s))
          /\ WF_vars(OracleSucceeds(c) \/ OracleFails(c))

SpecLive == Init /\ [][NextLive]_vars /\ Fairness

\* C24: every getOptimalQuote call in progress eventually returns or throws,
\* given that every upstream call eventually responds or is aborted.
C24_Terminates == \A c \in Callers : InProgress(c) ~> Finished(c)

\* a call went through all three stages and returned the oracle's quote
C24_Witness ==
    \E c \in Callers :
        /\ calls[c].pc = "returned"
        /\ calls[c].result.source = "pyth-oracle"
        /\ \A s \in Sources : calls[c].fetches[s] = 1

----------------------------------------------------------------------------
(* Properties of the Jupiter response handling *)

NextJupiter == \E data \in JupiterData : JupiterResponds(data)

SpecJupiter == Init /\ [][NextJupiter]_vars

\* one level down: high to medium, medium to low, low stays low
OneLevelDown(confidence) == IF confidence = "high" THEN "medium" ELSE "low"

\* the confidence the rule gives for a price impact and a number of hops
ConfidenceRule(impact, hops) ==
    LET base == IF impact > 5 THEN "low" ELSE IF impact > 1 THEN "medium" ELSE "high"
    IN IF hops > 4 THEN OneLevelDown(base) ELSE base

\* C22: the confidence of a Jupiter quote follows from the price impact and
\* the hop count of the response alone: impact > 5 low, impact in (1, 5]
\* medium, else high, one level down for more than 4 hops; one warning for
\* impact > 5 and one for hops > 4, so a high quote carries no warning.
C22_PrimaryConfidence ==
    parsed.pc = "done" =>
        /\ parsed.quote.confidence = ConfidenceRule(parsed.data.pct, parsed.data.hops)
        /\ parsed.quote.warnings = (IF parsed.data.pct > 5 THEN 1 ELSE 0)
                                       + (IF parsed.data.hops > 4 THEN 1 ELSE 0)
        /\ parsed.quote.confidence = "high" => parsed.quote.warnings = 0

----------------------------------------------------------------------------
(* Properties of the scorer *)

NextScore ==
    /\ score.pc = "idle"
    /\ \E n \in 1..MaxQuotes : \E quotes \in [1..n -> ScoreQuotes] : SelectBest(quotes)

SpecScore == Init /\ [][NextScore]_vars

\* the value of an amount of ScoreAmounts, counted from the smallest
RawOrder(text) ==
    IF text = "1000000" THEN 1 ELSE IF text = "9007199254740992" THEN 2 ELSE 3

TopScore(quotes) ==
    CHOOSE m \in {calculateQuoteScore(quotes[i]) : i \in 1..Len(quotes)} :
        \A i \in 1..Len(quotes) : calculateQuoteScore(quotes[i]) <= m

\* the orderings of a list
Orderings(quotes) ==
    {[i \in 1..Len(quotes) |-> quotes[p[i]]] :
        p \in {f \in [1..Len(quotes) -> 1..Len(quotes)] :
                 \A i, j \in 1..Len(quotes) : f[i] = f[j] => i = j}}

====
